---- MODULE Spec2Model ----
(***************************************************************************)
(* CalmDrafts: the check cycle (checkAndCleanDrafts), the draft listing    *)
(* with its emptiness classifier (gmail.Client.ListDrafts, isEmpty), the   *)
(* notifier calls and the scheduler loop of main.                          *)
(*                                                                         *)
(* Times are integers in milliseconds.  Every collaborator call of a cycle *)
(* is recorded in `calls`, the call log of the cycle in progress.          *)
(***************************************************************************)
EXTENDS Integers, Sequences, FiniteSets, TLC

\* ------------------------------------------------------------------ bounds
\* Number of draft ids of the remote mailbox.
MaxDrafts == 2
\* Number of times the clock advances (each advance is one TimeStep).
MaxClockSteps == 1

\* --------------------------------------------------------------- constants
\* time.Time{} (the zero time, year 1): before every time built by time.Unix.
ZeroTime == -100000
\* Milliseconds per second: InternalDate/1000 in ListDrafts.
MsPerSec == 1000

\* The clock reading when the process starts, and the advance of one step.
NowStart == 4 * MsPerSec
TimeStep == MsPerSec \div 2
MaxNow == NowStart + MaxClockSteps * TimeStep

Ids == 1..MaxDrafts

\* ------------------------------------------------------- content-part tree
\* A *gmail.MessagePart: nil, or a part with an optional body (Body == nil
\* when hasBody is FALSE) and sub-parts.
NilPart == [isNil |-> TRUE, hasBody |-> FALSE, size |-> 0, parts |-> <<>>]
Part(hasBody, size, parts) ==
    [isNil |-> FALSE, hasBody |-> hasBody, size |-> size, parts |-> parts]

RECURSIVE isEmpty(_)
RECURSIVE partsEmpty(_, _)
\* The loop `for _, part := range payload.Parts` of isEmpty, from index i.
partsEmpty(parts, i) ==
    IF i > Len(parts) THEN TRUE
    ELSE IF ~isEmpty(parts[i]) THEN FALSE
    ELSE partsEmpty(parts, i + 1)

\* isEmpty that looks at the part's own body only and never at its sub-parts.
isEmptyBodyOnly(payload) ==
    payload.isNil \/ ~(payload.hasBody /\ payload.size > 0)

\* isEmpty checks if a message payload has any content.
isEmpty(payload) ==
    IF payload.isNil THEN TRUE
    ELSE IF payload.hasBody /\ payload.size > 0 THEN FALSE
    ELSE partsEmpty(payload.parts, 1)

\* ----------------------------------------------------------------- headers
Header(name, value) == [name |-> name, value |-> value]

RECURSIVE HeaderValue(_, _, _, _)
\* The loop over Payload.Headers: the last header named `name` wins; the
\* field keeps its zero value "" when no header has that name.
HeaderValue(headers, name, i, acc) ==
    IF i > Len(headers) THEN acc
    ELSE HeaderValue(headers, name, i + 1,
                     IF headers[i].name = name THEN headers[i].value ELSE acc)

\* ------------------------------------------------------------ remote draft
\* What Users.Drafts.Get returns for one draft id (Absent: no such draft).
Detail(msgId, internalDate, headers, payload) ==
    [present |-> TRUE, msgId |-> msgId, internalDate |-> internalDate,
     headers |-> headers, payload |-> payload]
Absent == [present |-> FALSE, msgId |-> 0, internalDate |-> 0,
           headers |-> <<>>, payload |-> NilPart]

\* A conversion without the test for a missing date: 0 becomes the epoch.
ParseInternalDateEpoch(ms) == (ms \div MsPerSec) * MsPerSec

\* InternalDate (ms) to time.Time: time.Unix(ms/1000, 0), or the zero time.
ParseInternalDate(ms) ==
    IF ms > 0 THEN (ms \div MsPerSec) * MsPerSec ELSE ZeroTime

\* The Draft built by ListDrafts from one draft detail.
MakeDraft(id, detail) ==
    LET subject == HeaderValue(detail.headers, "Subject", 1, "")
        to      == HeaderValue(detail.headers, "To", 1, "")
    IN  [ID |-> id, MessageID |-> detail.msgId,
         Subject |-> subject, To |-> to,
         InternalDate |-> ParseInternalDate(detail.internalDate),
         IsEmpty |-> (subject = "" /\ to = "" /\ isEmpty(detail.payload))]

\* A listing without the `continue`: a draft whose detail call failed is
\* appended all the same, built from an empty detail.
RECURSIVE ListFromKeepsFailed(_, _, _, _)
ListFromKeepsFailed(rem, getFail, id, acc) ==
    IF id > MaxDrafts THEN acc
    ELSE IF ~rem[id].present
         THEN ListFromKeepsFailed(rem, getFail, id + 1, acc)
         ELSE ListFromKeepsFailed(rem, getFail, id + 1,
                  Append(acc, MakeDraft(id, IF id \in getFail
                                           THEN Detail(0, 0, <<>>, NilPart)
                                           ELSE rem[id])))

\* ListDrafts over the mailbox `rem`, from draft id `id` on: the drafts whose
\* detail call fails (getFail) are skipped, the others appended in order.
RECURSIVE ListFrom(_, _, _, _)
ListFrom(rem, getFail, id, acc) ==
    IF id > MaxDrafts THEN acc
    ELSE IF ~rem[id].present \/ id \in getFail
         THEN ListFrom(rem, getFail, id + 1, acc)
         ELSE ListFrom(rem, getFail, id + 1, Append(acc, MakeDraft(id, rem[id])))

ListDrafts(rem, getFail) == ListFrom(rem, getFail, 1, <<>>)

\* The details ListDrafts read, parallel to its result.
RECURSIVE SnapFrom(_, _, _, _)
SnapFrom(rem, getFail, id, acc) ==
    IF id > MaxDrafts THEN acc
    ELSE IF ~rem[id].present \/ id \in getFail
         THEN SnapFrom(rem, getFail, id + 1, acc)
         ELSE SnapFrom(rem, getFail, id + 1, Append(acc, rem[id]))

\* draftDetail.Message.Payload.Headers dereferences a nil Payload.
ListPanics(rem, getFail) ==
    \E id \in Ids : rem[id].present /\ id \notin getFail /\ rem[id].payload.isNil

\* ------------------------------------------------------- retention policy
\* A cutoff that adds the age instead of subtracting it.
CutoffTimePlus(t, cleanupAge) == t + cleanupAge

\* cutoffTime := time.Now().Add(-cfg.CleanupAge)
CutoffTime(t, cleanupAge) == t - cleanupAge

\* A retention test that forgets the emptiness flag.
EligibleAnyOld(draft, cutoff) == draft.InternalDate < cutoff

\* draft.IsEmpty && draft.InternalDate.Before(cutoffTime)
Eligible(draft, cutoff) == draft.IsEmpty /\ draft.InternalDate < cutoff

\* --------------------------------------------------------------- notifier
\* Marks a field a call does not carry.
NoValue == 0 - 1
Call(op, id, a, b, ok) == [op |-> op, id |-> id, a |-> a, b |-> b, ok |-> ok]

\* NotifyDraftsWithDetails: the message names count, and emptyCount only
\* when it is positive.
SummaryCall(count, empties, ok) ==
    Call("summary", 0, count, IF empties > 0 THEN empties ELSE NoValue, ok)

\* NotifyCleanup: the message names deletedCount.
CleanupCall(count, ok) == Call("cleanup", 0, count, NoValue, ok)

\* NotifyError
ErrorCall(ok) == Call("error", 0, NoValue, NoValue, ok)

ListCall(ok) == Call("list", 0, NoValue, NoValue, ok)
DeleteCall(id, ok) == Call("delete", id, NoValue, NoValue, ok)

\* ------------------------------------------------------------------ inputs
\* Content-part trees of the mailbox drafts.
EmptyLeaf   == Part(TRUE, 0, <<>>)
NestedEmpty == Part(FALSE, 0, <<Part(TRUE, 0, <<>>), Part(FALSE, 0, <<NilPart>>)>>)
NestedBody  == Part(TRUE, 0, <<Part(FALSE, 0, <<>>), Part(FALSE, 0, <<Part(TRUE, 7, <<>>)>>)>>)

\* Remote drafts the mailbox may hold (internal dates in ms): an old empty
\* draft, a recent empty one, an old draft with a body two levels down and
\* a draft without payload.
DetailSamples ==
    { Detail(10, 1999, <<>>, EmptyLeaf),
      Detail(11, 3000, <<Header("Subject", ""), Header("Cc", "x@y")>>, NestedEmpty),
      Detail(14, 1999, <<>>, NestedBody),
      Detail(15, 1999, <<>>, NilPart) }

Mailboxes == [Ids -> DetailSamples \cup {Absent}]

\* Content-part trees two levels deep: body sizes absent, 0 or 5; up to two
\* sub-parts, each with at most one sub-part of its own; nil parts anywhere.
BodyKinds == {<<FALSE, 0>>, <<TRUE, 0>>, <<TRUE, 5>>}
Leaves == {Part(b[1], b[2], <<>>) : b \in BodyKinds} \cup {NilPart}
Inner ==
    {Part(b[1], b[2], ps) : b \in BodyKinds,
                            ps \in {<<>>} \cup {<<l>> : l \in Leaves}}
      \cup {NilPart}
Trees ==
    {Part(b[1], b[2], ps) : b \in BodyKinds,
                            ps \in {<<>>} \cup {<<x>> : x \in Inner}
                                         \cup {<<x, y>> : x \in Inner, y \in Inner}}
      \cup {NilPart}

\* Header lists: none, empty values, whitespace, text, a repeated header, a
\* header name in lower case.
HeaderSamples ==
    { <<>>,
      <<Header("Subject", ""), Header("To", "")>>,
      <<Header("Subject", " ")>>,
      <<Header("To", " ")>>,
      <<Header("Subject", "Hi")>>,
      <<Header("To", "a@b")>>,
      <<Header("Subject", "Hi"), Header("Subject", "")>>,
      <<Header("subject", "Hi")>> }

DateSamples == {0, 1999, 3000}

\* Drafts that vary the content tree, and drafts that vary headers and date.
TreeDetails == {Detail(20, 1999, <<>>, p) : p \in Trees}
HeaderDetails ==
    {Detail(21, d, h, p) : d \in DateSamples, h \in HeaderSamples,
                           p \in {EmptyLeaf, NestedEmpty, NestedBody, NilPart}}

\* Configurations LoadConfig may return: it decodes the two durations and
\* checks neither.
Config(checkInterval, cleanupAge) ==
    [CheckInterval |-> checkInterval, CleanupAge |-> cleanupAge]
CleanupAges == {0 - 2 * TimeStep, 0, 3 * TimeStep}
Configs == {Config(TimeStep, a) : a \in CleanupAges}
             \cup {Config(0 - TimeStep, 3 * TimeStep)}

\* ------------------------------------------------------------------- state
VARIABLES
    checkNow,      \* the -check flag: single-shot mode
    cfg,           \* the loaded configuration
    remote,        \* the remote mailbox: draft id -> detail
    now,           \* the wall clock
    pcMain,        \* position of main
    cpc,           \* position of checkAndCleanDrafts ("idle": not running)
    drafts,        \* the listing of the cycle in progress
    snap,          \* the details that listing was built from
    getFailed,     \* the ids whose detail call failed in that listing
    emptyCount,
    cutoffNow,     \* the time.Now() reading of line 109
    cutoffTime,
    idx,           \* position of the delete loop in drafts
    deletedCount,
    cycleErr,      \* the cycle in progress (or the last one) returned an error
    calls,         \* collaborator calls of the cycle in progress
    cycleNo,       \* number of cycles started
    active,        \* number of cycles in progress
    nextTick,      \* next firing time of the ticker
    tickPending,   \* a tick waits in ticker.C (capacity 1)
    sigPending,    \* a signal waits in sigChan (capacity 1)
    sigTaken,      \* the loop received the signal
    intrAt,        \* Len(calls) when a signal arrived during this cycle, else NoValue
    exitCode

vars == <<checkNow, cfg, remote, now, pcMain, cpc, drafts, snap, getFailed,
          emptyCount, cutoffNow, cutoffTime, idx, deletedCount, cycleErr, calls, cycleNo,
          active, nextTick, tickPending, sigPending, sigTaken, intrAt, exitCode>>

envVars == <<now, nextTick, tickPending, sigPending>>
cycleVars == <<drafts, snap, getFailed, emptyCount, cutoffNow, cutoffTime, idx,
               deletedCount, cycleErr, calls, intrAt>>
mainVars == <<pcMain, cycleNo, active, sigTaken, exitCode>>

\* main has parsed its flags and loaded its configuration; nothing runs yet.
InitProcess ==
    /\ pcMain = "start"
    /\ cpc = "idle"
    /\ drafts = <<>>
    /\ snap = <<>>
    /\ getFailed = {}
    /\ emptyCount = 0
    /\ cutoffNow = 0
    /\ cutoffTime = 0
    /\ idx = 0
    /\ deletedCount = 0
    /\ cycleErr = FALSE
    /\ calls = <<>>
    /\ cycleNo = 0
    /\ active = 0
    /\ nextTick = NoValue
    /\ tickPending = FALSE
    /\ sigPending = FALSE
    /\ sigTaken = FALSE
    /\ intrAt = NoValue
    /\ exitCode = NoValue

Init ==
    /\ checkNow \in BOOLEAN
    /\ cfg \in Configs
    /\ remote \in Mailboxes
    /\ now = NowStart
    /\ InitProcess

\* ------------------------------------------------- checkAndCleanDrafts
\* The call checkAndCleanDrafts(ctx, client, notif, cfg): a new cycle.
BeginCycle ==
    /\ cpc' = "list"
    /\ drafts' = <<>>
    /\ snap' = <<>>
    /\ getFailed' = {}
    /\ emptyCount' = 0
    /\ cutoffNow' = 0
    /\ cutoffTime' = 0
    /\ idx' = 0
    /\ deletedCount' = 0
    /\ cycleErr' = FALSE
    /\ calls' = <<>>
    /\ intrAt' = NoValue
    /\ cycleNo' = cycleNo + 1
    /\ active' = active + 1

\* A count that takes every draft for an empty one.
CountAll(ds, i, n) == Len(ds)

\* emptyCount of lines 93-98.
RECURSIVE CountEmpty(_, _, _)
CountEmpty(ds, i, n) ==
    IF i > Len(ds) THEN n
    ELSE CountEmpty(ds, i + 1, IF ds[i].IsEmpty THEN n + 1 ELSE n)

\* The listing error is ignored and the cycle goes on.
AfterListErrorIgnored == "summary"

\* Where the cycle goes when client.ListDrafts returned an error.
AfterListError == "notifyErr"

\* client.ListDrafts fails: the listing and every page of it is dropped.
ListDraftsFail ==
    /\ cpc = "list"
    /\ calls' = Append(calls, ListCall(FALSE))
    /\ cpc' = AfterListError
    /\ UNCHANGED <<checkNow, cfg, remote, envVars, mainVars, drafts, snap,
                   getFailed,
                   emptyCount, cutoffNow, cutoffTime, idx, deletedCount,
                   cycleErr, intrAt>>

\* notif.NotifyError(err); return fmt.Errorf(...)
NotifyErrorStep ==
    /\ cpc = "notifyErr"
    /\ \E ok \in BOOLEAN : calls' = Append(calls, ErrorCall(ok))
    /\ cycleErr' = TRUE
    /\ cpc' = "ret"
    /\ UNCHANGED <<checkNow, cfg, remote, envVars, mainVars, drafts, snap,
                   getFailed,
                   emptyCount, cutoffNow, cutoffTime, idx, deletedCount, intrAt>>

\* The cleanup starts right after the listing, before any notification.
AfterListOKCleanupFirst == "cutoff"

\* Where the cycle goes when client.ListDrafts returned its drafts: the
\* count of lines 93-100, then the summary notification.
AfterListOK == "summary"

\* client.ListDrafts succeeds; the detail call of the drafts in getFail
\* failed.  Lines 93-98 count the empty drafts.
ListDraftsOK ==
    /\ cpc = "list"
    /\ \E getFail \in SUBSET {id \in Ids : remote[id].present} :
          /\ ~ListPanics(remote, getFail)
          /\ drafts' = ListDrafts(remote, getFail)
          /\ snap' = SnapFrom(remote, getFail, 1, <<>>)
          /\ getFailed' = getFail
    /\ emptyCount' = CountEmpty(drafts', 1, 0)
    /\ calls' = Append(calls, ListCall(TRUE))
    /\ cpc' = AfterListOK
    /\ UNCHANGED <<checkNow, cfg, remote, envVars, mainVars, cutoffNow,
                   cutoffTime, idx, deletedCount, cycleErr, intrAt>>

\* client.ListDrafts meets a draft without payload: nil dereference, the
\* process dies.
ListDraftsPanic ==
    /\ cpc = "list"
    /\ \E getFail \in SUBSET {id \in Ids : remote[id].present} :
          ListPanics(remote, getFail)
    /\ cpc' = "panic"
    /\ pcMain' = "panic"
    /\ UNCHANGED <<checkNow, cfg, remote, envVars, cycleVars, cycleNo, active,
                   sigTaken, exitCode>>

\* A failed summary notification ends the cycle.
AfterSummaryAbort(ok) == IF ok THEN "cutoff" ELSE "ret"

\* Where the cycle goes after notif.NotifyDraftsWithDetails returned
\* (ok = FALSE: with an error, which is logged).
AfterSummary(ok) == "cutoff"

\* notif.NotifyDraftsWithDetails(len(drafts), emptyCount)
NotifySummary ==
    /\ cpc = "summary"
    /\ \E ok \in BOOLEAN :
          /\ calls' = Append(calls, SummaryCall(Len(drafts), emptyCount, ok))
          /\ cpc' = AfterSummary(ok)
    /\ UNCHANGED <<checkNow, cfg, remote, envVars, mainVars, drafts, snap,
                   getFailed,
                   emptyCount, cutoffNow, cutoffTime, idx, deletedCount,
                   cycleErr, intrAt>>

\* deletedCount := 0; cutoffTime := time.Now().Add(-cfg.CleanupAge)
ComputeCutoff ==
    /\ cpc = "cutoff"
    /\ deletedCount' = 0
    /\ cutoffNow' = now
    /\ cutoffTime' = CutoffTime(now, cfg.CleanupAge)
    /\ idx' = 1
    /\ cpc' = "loop"
    /\ UNCHANGED <<checkNow, cfg, remote, envVars, mainVars, drafts, snap,
                   getFailed,
                   emptyCount, cycleErr, calls, intrAt>>

\* break instead of continue: the first failed deletion ends the loop.
AfterDeleteErrorBreak(i) == Len(drafts) + 1

\* The loop index after client.DeleteDraft returned an error (continue).
AfterDeleteError(i) == i + 1

\* A count that takes failed deletions in.
CountedAlways(count, ok) == count + 1

\* deletedCount after client.DeleteDraft returned.
Counted(count, ok) == IF ok THEN count + 1 ELSE count

\* One iteration of the delete loop on a draft that is not eligible.
SkipDraft ==
    /\ cpc = "loop"
    /\ idx <= Len(drafts)
    /\ ~Eligible(drafts[idx], cutoffTime)
    /\ idx' = idx + 1
    /\ UNCHANGED <<checkNow, cfg, remote, envVars, mainVars, drafts, snap,
                   getFailed,
                   emptyCount, cutoffNow, cutoffTime, deletedCount, cycleErr,
                   calls, cpc, intrAt>>

\* One iteration on an eligible draft: client.DeleteDraft succeeds and the
\* remote draft is gone.
DeleteOK ==
    /\ cpc = "loop"
    /\ idx <= Len(drafts)
    /\ Eligible(drafts[idx], cutoffTime)
    /\ remote[drafts[idx].ID].present
    /\ remote' = [remote EXCEPT ![drafts[idx].ID] = Absent]
    /\ calls' = Append(calls, DeleteCall(drafts[idx].ID, TRUE))
    /\ deletedCount' = Counted(deletedCount, TRUE)
    /\ idx' = idx + 1
    /\ UNCHANGED <<checkNow, cfg, envVars, mainVars, drafts, snap,
                   getFailed, emptyCount,
                   cutoffNow, cutoffTime, cycleErr, cpc, intrAt>>

\* One iteration on an eligible draft: client.DeleteDraft returns an error,
\* which is logged.
DeleteFail ==
    /\ cpc = "loop"
    /\ idx <= Len(drafts)
    /\ Eligible(drafts[idx], cutoffTime)
    /\ calls' = Append(calls, DeleteCall(drafts[idx].ID, FALSE))
    /\ deletedCount' = Counted(deletedCount, FALSE)
    /\ idx' = AfterDeleteError(idx)
    /\ UNCHANGED <<checkNow, cfg, remote, envVars, mainVars, drafts, snap,
                   getFailed,
                   emptyCount, cutoffNow, cutoffTime, cycleErr, cpc, intrAt>>

\* The loop is over.
LoopDone ==
    /\ cpc = "loop"
    /\ idx > Len(drafts)
    /\ cpc' = "cleanup"
    /\ UNCHANGED <<checkNow, cfg, remote, envVars, mainVars, drafts, snap,
                   getFailed,
                   emptyCount, cutoffNow, cutoffTime, idx, deletedCount,
                   cycleErr, calls, intrAt>>

\* if deletedCount > 0
CleanupWanted(count) == count > 0

\* NotifyCleanup sends nothing for a count of 0.
CleanupSends(count) == count # 0

\* Lines 124-131: the cleanup notification, then return nil.
NotifyCleanupStep ==
    /\ cpc = "cleanup"
    /\ IF CleanupWanted(deletedCount) /\ CleanupSends(deletedCount)
       THEN \E ok \in BOOLEAN : calls' = Append(calls, CleanupCall(deletedCount, ok))
       ELSE calls' = calls
    /\ cycleErr' = FALSE
    /\ cpc' = "ret"
    /\ UNCHANGED <<checkNow, cfg, remote, envVars, mainVars, drafts, snap,
                   getFailed,
                   emptyCount, cutoffNow, cutoffTime, idx, deletedCount, intrAt>>

\* -------------------------------------------------------------------- main
\* A failed cycle is fatal in the loop too.
AfterCycleFatal(caller, err) ==
    IF caller = "single" \/ err THEN "exited" ELSE "select"

\* Where main goes when the cycle it called returned (err: with an error):
\* single-shot mode exits, the loop logs the error and waits again.
AfterCycle(caller, err) == IF caller = "single" THEN "exited" ELSE "select"

\* checkAndCleanDrafts returns to main; its locals are gone.
ReturnToMain ==
    /\ cpc = "ret"
    /\ cpc' = "idle"
    /\ active' = active - 1
    /\ pcMain' = AfterCycle(pcMain, cycleErr)
    /\ exitCode' = IF pcMain' = "exited" THEN (IF cycleErr THEN 1 ELSE 0)
                   ELSE exitCode
    /\ drafts' = <<>>
    /\ snap' = <<>>
    /\ getFailed' = {}
    /\ emptyCount' = 0
    /\ cutoffNow' = 0
    /\ cutoffTime' = 0
    /\ idx' = 0
    /\ deletedCount' = 0
    /\ calls' = <<>>
    /\ intrAt' = NoValue
    /\ UNCHANGED <<checkNow, cfg, remote, envVars, cycleErr, cycleNo, sigTaken>>

\* -check: run a single check and exit (lines 45-52).
StartSingle ==
    /\ pcMain = "start"
    /\ checkNow
    /\ pcMain' = "single"
    /\ BeginCycle
    /\ UNCHANGED <<checkNow, cfg, remote, envVars, sigTaken, exitCode>>

\* time.NewTicker panics on a non-positive interval.
StartPanic ==
    /\ pcMain = "start"
    /\ ~checkNow
    /\ cfg.CheckInterval <= 0
    /\ pcMain' = "panic"
    /\ UNCHANGED <<checkNow, cfg, remote, envVars, cycleVars, cpc, cycleNo,
                   active, sigTaken, exitCode>>

\* Lines 54-65: the ticker, the signal channel, the initial check.
StartContinuous ==
    /\ pcMain = "start"
    /\ ~checkNow
    /\ cfg.CheckInterval > 0
    /\ nextTick' = now + cfg.CheckInterval
    /\ pcMain' = "initial"
    /\ BeginCycle
    /\ UNCHANGED <<checkNow, cfg, remote, now, tickPending, sigPending,
                   sigTaken, exitCode>>

\* The ticker case taken while a cycle is still running.
TickReadyAnytime == pcMain \in {"select", "initial", "tick"} /\ tickPending

\* The select of the main loop can take the ticker case.
TickReady == pcMain = "select" /\ tickPending

\* case <-ticker.C: the next check.
SelectTick ==
    /\ TickReady
    /\ tickPending' = FALSE
    /\ pcMain' = "tick"
    /\ BeginCycle
    /\ UNCHANGED <<checkNow, cfg, remote, now, nextTick, sigPending, sigTaken,
                   exitCode>>

\* The signal case taken while a cycle is still running.
SigReadyAnytime == pcMain \in {"select", "initial", "tick"} /\ sigPending

\* The select of the main loop can take the signal case.
SigReady == pcMain = "select" /\ sigPending

\* case sig := <-sigChan: return.
SelectSig ==
    /\ SigReady
    /\ sigPending' = FALSE
    /\ sigTaken' = TRUE
    /\ pcMain' = "exited"
    /\ exitCode' = 0
    /\ UNCHANGED <<checkNow, cfg, remote, now, nextTick, tickPending,
                   cycleVars, cpc, cycleNo, active>>

\* ------------------------------------------------------------- environment
Running == pcMain \in {"initial", "select", "tick"}

\* A signal that cuts the cycle in progress short.
CycleAborted(c) == IF c \in {"idle", "panic"} THEN c ELSE "ret"

\* The position of the cycle in progress when a signal arrives: signal.Notify
\* relays the signal to sigChan and nothing reads it during a cycle.
CycleOnSignal(c) == c

\* SIGINT or SIGTERM once signal.Notify registered sigChan: the signal is
\* queued, or dropped when the channel is full.
Interrupt ==
    /\ Running
    /\ ~sigPending
    /\ sigPending' = TRUE
    /\ intrAt' = IF cpc # "idle" /\ intrAt = NoValue THEN Len(calls) ELSE intrAt
    /\ cpc' = CycleOnSignal(cpc)
    /\ UNCHANGED <<checkNow, cfg, remote, now, nextTick, tickPending, mainVars,
                   drafts, snap, getFailed, emptyCount, cutoffNow, cutoffTime, idx,
                   deletedCount, cycleErr, calls>>

\* The clock advances; the ticker fires when its period has elapsed, and
\* the tick is dropped when one is still waiting in ticker.C.
TimePasses ==
    /\ now < MaxNow
    /\ pcMain \notin {"exited", "panic"}
    /\ now' = now + TimeStep
    /\ IF Running /\ now' >= nextTick
       THEN /\ tickPending' = TRUE
            /\ nextTick' = nextTick + cfg.CheckInterval
       ELSE UNCHANGED <<tickPending, nextTick>>
    /\ UNCHANGED <<checkNow, cfg, remote, sigPending, mainVars, cycleVars, cpc>>

Next ==
    \/ StartSingle
    \/ StartPanic
    \/ StartContinuous
    \/ ListDraftsFail
    \/ NotifyErrorStep
    \/ ListDraftsOK
    \/ ListDraftsPanic
    \/ NotifySummary
    \/ ComputeCutoff
    \/ SkipDraft
    \/ DeleteOK
    \/ DeleteFail
    \/ LoopDone
    \/ NotifyCleanupStep
    \/ ReturnToMain
    \/ SelectTick
    \/ SelectSig
    \/ Interrupt
    \/ TimePasses

Spec == Init /\ [][Next]_vars

\* ------------------------------------------------ single check, wide inputs
\* calmdrafts -check on a mailbox whose first draft ranges over the content
\* trees, or over the header lists and dates, at any clock reading.
ClockValues == {NowStart + k * TimeStep : k \in 0..MaxClockSteps}
OldEmpty == Detail(10, 1999, <<>>, EmptyLeaf)
RestOfMailbox == [Ids \ {1} -> {OldEmpty, Absent}]
WithFirst(d, rest) == [id \in Ids |-> IF id = 1 THEN d ELSE rest[id]]

InitCycle ==
    /\ checkNow = TRUE
    /\ \/ /\ \E d \in TreeDetails, rest \in RestOfMailbox :
                remote = WithFirst(d, rest)
          /\ cfg = Config(TimeStep, 3 * TimeStep)
          /\ now = NowStart
       \/ /\ \E d \in HeaderDetails, rest \in RestOfMailbox :
                remote = WithFirst(d, rest)
          /\ cfg \in Configs
          /\ now \in ClockValues
    /\ InitProcess

NextCycle ==
    \/ StartSingle
    \/ ListDraftsFail
    \/ NotifyErrorStep
    \/ ListDraftsOK
    \/ ListDraftsPanic
    \/ NotifySummary
    \/ ComputeCutoff
    \/ SkipDraft
    \/ DeleteOK
    \/ DeleteFail
    \/ LoopDone
    \/ NotifyCleanupStep
    \/ ReturnToMain

SpecCycle == InitCycle /\ [][NextCycle]_vars

\* ---------------------------------------------------- the loop, with fairness
\* Continuous mode with a configuration the ticker accepts, on a mailbox of
\* old empty drafts and old drafts with a body.
OldBody == Detail(14, 1999, <<>>, NestedBody)
LoopConfigs == {c \in Configs : c.CheckInterval > 0 /\ c.CleanupAge >= 0}

InitLoop ==
    /\ checkNow = FALSE
    /\ cfg \in LoopConfigs
    /\ remote \in [Ids -> {OldEmpty, OldBody, Absent}]
    /\ now = NowStart
    /\ InitProcess

\* The steps of the program itself.
LoopProgram ==
    \/ StartContinuous
    \/ ListDraftsFail
    \/ NotifyErrorStep
    \/ ListDraftsOK
    \/ NotifySummary
    \/ ComputeCutoff
    \/ SkipDraft
    \/ DeleteOK
    \/ DeleteFail
    \/ LoopDone
    \/ NotifyCleanupStep
    \/ ReturnToMain
    \/ SelectTick
    \/ SelectSig

NextLoop ==
    \/ LoopProgram
    \/ Interrupt
    \/ TimePasses

\* main is one goroutine and every collaborator call returns: the program
\* takes its next step whenever it has one.
FairSpec == InitLoop /\ [][NextLoop]_vars /\ WF_vars(LoopProgram)

\* ------------------------------------------- single check, edited mailbox
\* The mailbox belongs to the user, who writes into drafts while the check
\* runs: Users.Drafts.Delete (client.go) names the draft by its id alone
\* and removes whatever the id holds when the request arrives.
Edited(d) == Detail(d.msgId + 1, d.internalDate, d.headers, NestedBody)

\* The user types a body into a draft that had none.
UserEdit ==
    /\ pcMain \notin {"exited", "panic"}
    /\ \E id \in Ids :
          /\ remote[id].present
          /\ isEmpty(remote[id].payload)
          /\ remote' = [remote EXCEPT ![id] = Edited(remote[id])]
    /\ UNCHANGED <<checkNow, cfg, envVars, mainVars, cycleVars, cpc>>

InitEdit ==
    /\ checkNow = TRUE
    /\ cfg \in LoopConfigs
    /\ remote \in [Ids -> {OldEmpty, OldBody, Absent}]
    /\ now = NowStart
    /\ InitProcess

NextEdit ==
    \/ StartSingle
    \/ ListDraftsFail
    \/ NotifyErrorStep
    \/ ListDraftsOK
    \/ NotifySummary
    \/ ComputeCutoff
    \/ SkipDraft
    \/ DeleteOK
    \/ DeleteFail
    \/ LoopDone
    \/ NotifyCleanupStep
    \/ ReturnToMain
    \/ UserEdit

SpecEdit == InitEdit /\ [][NextEdit]_vars

\* ================================================================= claims
\* Helpers over the call log of the cycle in progress.
CallsOf(op) == {k \in 1..Len(calls) : calls[k].op = op}
DeletesOf(id) == {k \in CallsOf("delete") : calls[k].id = id}
Listed(id) == \E i \in 1..Len(drafts) : drafts[i].ID = id

\* C1: every delete request of a cycle is for a draft of that cycle's listing
\* that was classified empty and whose createdAt is strictly before
\* now - cleanupAge (now: the clock reading the cycle took, and a fortiori
\* the clock at any later moment of the cycle); a draft classified non-empty
\* never receives a delete request.
C1_DeleteOnlyOldEmpty ==
    \A k \in CallsOf("delete") :
        \E i \in 1..Len(drafts) :
            /\ drafts[i].ID = calls[k].id
            /\ drafts[i].IsEmpty
            /\ drafts[i].InternalDate < cutoffNow - cfg.CleanupAge
            /\ drafts[i].InternalDate < now - cfg.CleanupAge

\* A finished cycle that deleted a draft and passed over an older-than-cutoff
\* draft that is not empty.
C1_Witness ==
    /\ cpc = "ret"
    /\ CallsOf("delete") # {}
    /\ \E i \in 1..Len(drafts) :
          /\ ~drafts[i].IsEmpty
          /\ drafts[i].InternalDate < cutoffTime
          /\ DeletesOf(drafts[i].ID) = {}

\* The body sizes present anywhere in a content-part tree.
RECURSIVE BodySizes(_)
BodySizes(p) ==
    IF p.isNil THEN {}
    ELSE (IF p.hasBody THEN {p.size} ELSE {})
           \cup UNION {BodySizes(p.parts[i]) : i \in 1..Len(p.parts)}

\* C2: a listed draft is classified empty iff its subject is "", its
\* recipient is "" and no part of its content tree, at any depth, has a body
\* size greater than zero.
C2_EmptyIffNoSubjectRecipientBody ==
    \A i \in 1..Len(drafts) :
        drafts[i].IsEmpty <=>
            /\ drafts[i].Subject = ""
            /\ drafts[i].To = ""
            /\ \A sz \in BodySizes(snap[i].payload) : ~(sz > 0)

\* A listed draft without subject and recipient whose only content lies two
\* levels down, classified non-empty.
C2_Witness ==
    \E i \in 1..Len(drafts) :
        LET p == snap[i].payload IN
        /\ drafts[i].Subject = "" /\ drafts[i].To = ""
        /\ ~drafts[i].IsEmpty
        /\ ~(p.hasBody /\ p.size > 0)
        /\ \A j \in 1..Len(p.parts) :
              p.parts[j].isNil \/ ~(p.parts[j].hasBody /\ p.parts[j].size > 0)

\* More helpers over the cycle in progress.
FetchFailed == Len(calls) >= 1 /\ calls[1].op = "list" /\ ~calls[1].ok
FetchOK == Len(calls) >= 1 /\ calls[1].op = "list" /\ calls[1].ok
OkDeletes == {k \in CallsOf("delete") : calls[k].ok}
\* The retention policy as the specification words it.
PolicyEligible(d) == d.IsEmpty /\ d.InternalDate < cutoffNow - cfg.CleanupAge
Finished == cpc = "ret"

\* C3: when the listing call fails, the cycle attempts exactly one error
\* notification, sends no summary and no cleanup notification, issues no
\* delete request and returns an error (exit code 1 in single-shot mode).
C3_FetchFailure ==
    /\ FetchFailed =>
          /\ CallsOf("summary") = {}
          /\ CallsOf("cleanup") = {}
          /\ CallsOf("delete") = {}
          /\ Cardinality(CallsOf("error")) <= 1
          /\ Finished => Cardinality(CallsOf("error")) = 1 /\ cycleErr
    /\ (Finished /\ cycleErr) => FetchFailed
    /\ (checkNow /\ pcMain = "exited" /\ cycleErr) => exitCode = 1

\* A failed listing whose error notification failed too, at the return.
C3_Witness ==
    /\ Finished
    /\ FetchFailed
    /\ \E k \in CallsOf("error") : ~calls[k].ok

\* C4: within one cycle every retention-eligible draft of the listing gets
\* exactly one delete request, and the others none, whether or not other
\* delete requests failed.
C4_EachEligibleDeletedOnce ==
    /\ \A i \in 1..Len(drafts) : Cardinality(DeletesOf(drafts[i].ID)) <= 1
    /\ (cpc \in {"cleanup", "ret"} /\ FetchOK) =>
          \A i \in 1..Len(drafts) :
              Cardinality(DeletesOf(drafts[i].ID))
                  = IF PolicyEligible(drafts[i]) THEN 1 ELSE 0

\* A finished cycle whose first delete request failed and whose second one
\* was still issued.
C4_Witness ==
    /\ Finished
    /\ \E k \in CallsOf("delete"), m \in CallsOf("delete") :
          k < m /\ ~calls[k].ok /\ calls[k].id # calls[m].id

\* C7: a cleanup notification is sent iff deletedCount > 0, at most once,
\* after all delete requests of the cycle, and reports the number of delete
\* requests that succeeded.
C7_CleanupNotification ==
    /\ Cardinality(CallsOf("cleanup")) <= 1
    /\ \A c \in CallsOf("cleanup") :
          /\ \A k \in CallsOf("delete") : k < c
          /\ c = Len(calls)
          /\ calls[c].a = Cardinality(OkDeletes)
          /\ calls[c].a > 0
    /\ cpc \in {"loop", "cleanup", "ret"} /\ FetchOK =>
          deletedCount = Cardinality(OkDeletes)
    /\ (Finished /\ FetchOK) =>
          (CallsOf("cleanup") # {} <=> deletedCount > 0)

\* A finished cycle with one failed and one successful deletion, whose
\* cleanup notification reports 1.
C7_Witness ==
    /\ Finished
    /\ \E k \in CallsOf("delete") : ~calls[k].ok
    /\ \E c \in CallsOf("cleanup") : calls[c].a = 1

\* C8: whenever the fetch succeeds the cycle returns success (exit code 0
\* in single-shot mode), whatever the summary notification, the deletions
\* and the cleanup notification did; after a failed summary notification
\* the retention filter and the delete requests still run.
C8_SuccessAfterFetch ==
    /\ (Finished /\ FetchOK) =>
          /\ ~cycleErr
          /\ Cardinality(CallsOf("summary")) = 1
          /\ cutoffNow >= NowStart
          /\ \A i \in 1..Len(drafts) :
                PolicyEligible(drafts[i]) => DeletesOf(drafts[i].ID) # {}
    /\ (checkNow /\ pcMain = "exited" /\ ~cycleErr) => exitCode = 0

\* A cycle that returns success although its summary notification, one
\* deletion and its cleanup notification failed.
C8_Witness ==
    /\ Finished
    /\ ~cycleErr
    /\ \E k \in CallsOf("summary") : ~calls[k].ok
    /\ \E k \in CallsOf("delete") : ~calls[k].ok
    /\ \E k \in CallsOf("cleanup") : ~calls[k].ok

\* Cutoff ages tried against the one configured.
AgeRange == {k * TimeStep : k \in 0..(MaxNow \div TimeStep)}

\* C9 as stated: a draft eligible at the configured cutoff age stays eligible
\* at every larger cutoff age (createdAt and now fixed).
C9_MonotonicInLargerAge ==
    cpc \in {"loop", "cleanup", "ret"} =>
        \A i \in 1..Len(drafts) : \A a \in AgeRange :
            (a > cfg.CleanupAge /\ Eligible(drafts[i], cutoffTime))
                => Eligible(drafts[i], CutoffTime(cutoffNow, a))

\* C9 amended: a draft eligible at the configured cutoff age stays eligible
\* at every smaller non-negative cutoff age (createdAt and now fixed).
C9_MonotonicInSmallerAge ==
    cpc \in {"loop", "cleanup", "ret"} =>
        \A i \in 1..Len(drafts) : \A a \in AgeRange :
            (a < cfg.CleanupAge /\ Eligible(drafts[i], cutoffTime))
                => /\ Eligible(drafts[i], CutoffTime(cutoffNow, a))
                   /\ drafts[i].InternalDate < cutoffNow - a

\* A cycle with a dated draft eligible at a positive configured age: smaller
\* ages exist, and the draft is no longer eligible at some larger one.
C9_Witness ==
    /\ cpc = "loop"
    /\ cfg.CleanupAge > 0
    /\ \E i \in 1..Len(drafts) :
          /\ Eligible(drafts[i], cutoffTime)
          /\ drafts[i].InternalDate # ZeroTime
          /\ \E a \in AgeRange : a > cfg.CleanupAge
                /\ ~Eligible(drafts[i], CutoffTime(cutoffNow, a))

\* C5: cycles never overlap: at most one check cycle is in progress at any
\* instant, main waits at the select only while no cycle runs, and a tick
\* that fires during a cycle stays in ticker.C until the cycle has returned.
C5_CyclesNeverOverlap ==
    /\ active \in {0, 1}
    /\ active = 1 <=> cpc # "idle"
    /\ pcMain \in {"start", "select", "exited"} => active = 0
    /\ cycleNo <= 1 + MaxClockSteps

\* A tick waits in ticker.C while the initial cycle is in its delete loop.
C5_Witness ==
    /\ tickPending
    /\ cpc = "loop"
    /\ pcMain = "initial"
    /\ active = 1

AfterInterrupt ==
    {k \in 1..Len(calls) : k > intrAt /\ calls[k].op # "list"}

\* C10 as stated: after an interrupt arrived during a cycle, that cycle
\* issues no delete request or notification beyond the step it was in.
C10_InterruptCutsCycleShort ==
    intrAt # NoValue => Cardinality(AfterInterrupt) <= 1

\* C10 amended: an interrupt that arrives during a cycle is only queued; the
\* cycle runs to its end (summary, every eligible draft's delete request,
\* cleanup notification when something was deleted) and the loop has not
\* exited before the cycle returns.
C10_InterruptedCycleCompletes ==
    intrAt # NoValue =>
        /\ pcMain \in {"initial", "tick", "panic"}
        /\ sigPending /\ ~sigTaken
        /\ (Finished /\ FetchFailed) => CallsOf("error") # {}
        /\ (Finished /\ FetchOK) =>
              /\ CallsOf("summary") # {}
              /\ \A i \in 1..Len(drafts) :
                    PolicyEligible(drafts[i]) => DeletesOf(drafts[i].ID) # {}
              /\ OkDeletes # {} => CallsOf("cleanup") # {}

\* An interrupt arrived before the listing returned; the cycle went on to
\* its summary, a delete request and the cleanup notification.
C10_Witness ==
    /\ Finished
    /\ intrAt = 0
    /\ CallsOf("summary") # {}
    /\ CallsOf("delete") # {}
    /\ CallsOf("cleanup") # {}

\* C11: cancellation is cooperative: in continuous mode the loop takes the
\* signal only at its select, between cycles; a cycle in progress (the
\* initial one included) is left only through its return, and the loop
\* exits only by taking the signal.
C11_SignalTakenOnlyBetweenCycles ==
    [][ /\ (sigTaken' /\ ~sigTaken) =>
               (pcMain = "select" /\ cpc = "idle" /\ active = 0 /\ sigPending)
        /\ (cpc # "idle" /\ cpc' = "idle") => cpc = "ret"
        /\ (~checkNow /\ pcMain # "exited" /\ pcMain' = "exited") =>
               (sigTaken' /\ cpc' = "idle")
      ]_vars

\* The initial cycle returns after running on past a signal that arrived
\* while it was in progress; the signal still waits in sigChan.
C11_Witness ==
    /\ pcMain = "initial"
    /\ Finished
    /\ FetchOK
    /\ sigPending
    /\ intrAt # NoValue
    /\ Len(calls) > intrAt + 1

\* The emptyCount a summary notification tells its reader: the message names
\* it when positive and leaves it out when it is 0.
ReportedEmpty(c) == IF c.b = NoValue THEN 0 ELSE c.b
EmptyListed == {i \in 1..Len(drafts) : drafts[i].IsEmpty}

\* C12: every cycle whose fetch succeeds sends exactly one summary
\* notification, reporting the number of listed drafts and the number of
\* those classified empty; a cycle with zero fetched drafts reports (0, 0),
\* issues no delete request and sends no cleanup notification.
C12_OneSummaryWithCounts ==
    /\ Cardinality(CallsOf("summary")) <= 1
    /\ \A k \in CallsOf("summary") :
          /\ FetchOK
          /\ calls[k].a = Len(drafts)
          /\ ReportedEmpty(calls[k]) = Cardinality(EmptyListed)
    /\ (FetchOK /\ cpc \in {"cutoff", "loop", "cleanup", "ret"}) =>
          Cardinality(CallsOf("summary")) = 1
    /\ (FetchOK /\ Len(drafts) = 0 /\ Finished) =>
          /\ \A k \in CallsOf("summary") :
                calls[k].a = 0 /\ ReportedEmpty(calls[k]) = 0
          /\ CallsOf("delete") = {}
          /\ CallsOf("cleanup") = {}

\* A finished cycle that listed two drafts, one of them empty, and said so.
C12_Witness ==
    /\ Finished
    /\ Len(drafts) = 2
    /\ \E k \in CallsOf("summary") : calls[k].a = 2 /\ calls[k].b = 1

\* C13: the configured durations are validated as non-negative before use:
\* no cycle computes its retention cutoff from a negative cleanupAge, and
\* the scheduler never runs with a negative checkInterval.
C13_DurationsValidated ==
    /\ (FetchOK /\ cpc \in {"loop", "cleanup", "ret"}) =>
          (cfg.CleanupAge >= 0 /\ cutoffTime <= cutoffNow)
    /\ Running => cfg.CheckInterval >= 0

\* C14: a draft for which the remote system supplies no internal date gets
\* the zero time as createdAt and, once classified empty, is eligible in the
\* very cycle that lists it, for every non-negative cleanupAge: the one
\* configured (it then gets its delete request) and any other.
C14_UndatedEmptyDraftEligibleAtOnce ==
    \A i \in 1..Len(drafts) :
        snap[i].internalDate <= 0 =>
            /\ drafts[i].InternalDate = ZeroTime
            /\ (drafts[i].IsEmpty /\ cpc \in {"loop", "cleanup", "ret"}) =>
                  /\ \A a \in AgeRange :
                        /\ Eligible(drafts[i], CutoffTime(cutoffNow, a))
                        /\ drafts[i].InternalDate < cutoffNow - a
                  /\ cfg.CleanupAge >= 0 => Eligible(drafts[i], cutoffTime)
                  /\ (cfg.CleanupAge >= 0 /\ cpc \in {"cleanup", "ret"}) =>
                        DeletesOf(drafts[i].ID) # {}

\* A finished cycle with a positive cleanupAge that listed an empty draft
\* without internal date and asked for its deletion.
C14_Witness ==
    /\ Finished
    /\ cfg.CleanupAge > 0
    /\ \E i \in 1..Len(drafts) :
          /\ snap[i].internalDate = 0
          /\ drafts[i].IsEmpty
          /\ DeletesOf(drafts[i].ID) # {}

\* C15: within one cycle the collaborator calls come in a fixed order: the
\* listing call first, then the summary notification attempt, then all
\* delete requests, then the cleanup notification if any; no delete request
\* precedes the summary notification attempt.
C15_CallOrder ==
    \A k \in 1..Len(calls) :
        /\ calls[k].op = "list" <=> k = 1
        /\ calls[k].op = "summary" => (k = 2 /\ calls[1].ok)
        /\ calls[k].op = "error" => (k = 2 /\ ~calls[1].ok)
        /\ calls[k].op = "delete" =>
              (k >= 3 /\ calls[2].op = "summary"
                 /\ \A m \in 3..k : calls[m].op = "delete")
        /\ calls[k].op = "cleanup" =>
              (k = Len(calls) /\ k >= 4 /\ calls[2].op = "summary"
                 /\ \A m \in 3..(k - 1) : calls[m].op = "delete")

\* A finished cycle of five calls: listing, summary, two delete requests,
\* cleanup notification.
C15_Witness ==
    /\ Finished
    /\ Len(calls) = 5
    /\ calls[3].op = "delete" /\ calls[4].op = "delete"
    /\ calls[5].op = "cleanup"

\* C16: a draft without content tree (nil payload) has no body content:
\* listing it completes normally, and with an empty subject and recipient
\* it is classified empty.
C16_NilPayloadListedEmpty ==
    /\ cpc # "panic"
    /\ \A i \in 1..Len(snap) :
          (snap[i].payload.isNil /\ drafts[i].Subject = "" /\ drafts[i].To = "")
              => drafts[i].IsEmpty

\* C17: once an interrupt is pending while the loop waits in its select, the
\* loop exits without starting another check cycle, even when a tick is
\* pending too: no cycle started by a tick runs with an interrupt that was
\* already pending when the cycle began (intrAt records an interrupt that
\* arrived during the cycle).
C17_NoCycleAfterPendingInterrupt ==
    (pcMain = "tick" /\ sigPending) => intrAt # NoValue

\* C18: a draft that is non-empty in the remote mailbox at the moment its
\* delete request is issued is never deleted, whatever the user wrote
\* between the listing and the delete requests: every draft a step removes
\* from the mailbox had no subject, no recipient and no body just before.
C18_NonEmptyNeverDeleted ==
    [][ \A id \in Ids :
           (remote[id].present /\ ~remote'[id].present)
               => MakeDraft(id, remote[id]).IsEmpty
      ]_vars

\* The drafts the mailbox held when the cycle listed it: those it still
\* holds and those the cycle has deleted since.
PresentAtListing ==
    {id \in Ids : remote[id].present \/ \E k \in OkDeletes : calls[k].id = id}
ListedIds == {drafts[i].ID : i \in 1..Len(drafts)}

\* C19: when the detail call of a draft fails during the listing, the
\* listing succeeds all the same: that draft is left out of the result, is
\* counted neither in the total nor among the empty drafts, gets no delete
\* request in the cycle, no cycle error or error notification results, and
\* the other drafts are listed and processed as usual.
C19_DetailFailureSkipsDraft ==
    FetchOK =>
        /\ ~cycleErr
        /\ CallsOf("error") = {}
        /\ getFailed \subseteq PresentAtListing
        /\ ListedIds = PresentAtListing \ getFailed
        /\ Len(drafts) = Cardinality(ListedIds)
        /\ \A id \in getFailed :
              /\ ~Listed(id)
              /\ DeletesOf(id) = {}
              /\ remote[id].present
        /\ \A k \in CallsOf("summary") :
              /\ calls[k].a = Cardinality(PresentAtListing \ getFailed)
              /\ ReportedEmpty(calls[k]) =
                     Cardinality({i \in 1..Len(drafts) :
                                     drafts[i].ID \notin getFailed
                                       /\ drafts[i].IsEmpty})
        /\ Finished =>
              \A i \in 1..Len(drafts) :
                  PolicyEligible(drafts[i]) => DeletesOf(drafts[i].ID) # {}

\* A finished cycle whose listing lost an old empty draft to a failed detail
\* call and deleted the other old empty draft.
C19_Witness ==
    /\ Finished /\ FetchOK
    /\ \E id \in getFailed : MakeDraft(id, remote[id]).IsEmpty
    /\ Len(drafts) = 1
    /\ OkDeletes # {}
    /\ CallsOf("cleanup") # {}

====
